---- MODULE Spec2Model ----
(***************************************************************************)
(* ExchangeTKEY (tsig.go): one TKEY exchange with a name server.  The call *)
(* is modelled as a state machine whose steps are cut at the calls into    *)
(* the collaborators (net.LookupHost, dns.Client.Exchange); the results of *)
(* those calls are chosen nondeterministically from bounded sets.          *)
(***************************************************************************)
EXTENDS Integers, Sequences, FiniteSets, TLC

VARIABLES
    pc,         \* position of the call: build, lookup, sign, exchange, validate, done
    keyname, algorithm, mode, lifetime, input, extra,   \* parameters
    tsigname, tsigalgo, tsigmac,                        \* optional parameters (*string)
    now,        \* time.Now().Unix() read at line 66
    client,     \* *dns.Client
    msg,        \* *dns.Msg (copied aliases it)
    addrs,      \* result of net.LookupHost
    i,          \* index of the next address of the range loop
    rr, err, errs,
    result,     \* the returned triple
    resolved,   \* history: what net.LookupHost returned
    lookups,    \* history: number of net.LookupHost calls
    sent,       \* history: one entry per client.Exchange call
    calls       \* the calls that run concurrently: each a record of the above

vars == <<pc, keyname, algorithm, mode, lifetime, input, extra, tsigname, tsigalgo,
          tsigmac, now, client, msg, addrs, i, rr, err, errs, result, resolved,
          lookups, sent, calls>>

params == <<keyname, algorithm, mode, lifetime, input, extra, tsigname, tsigalgo,
            tsigmac, now>>

----------------------------------------------------------------------------
(* Bounds of the model *)

MaxAddrs == 2       \* longest address list net.LookupHost returns
MaxExtra == 1       \* longest extra record list a caller passes
MaxAnswer == 3      \* longest answer section of a validated response
MaxExtras == 2      \* longest extra record list where the order of the records is checked
MaxInput == 3       \* longest key material, but for those of 2^16 bytes and more

----------------------------------------------------------------------------
(* Constants of the program *)

\* strings are sequences of one-character strings so that ToLower is computed
GSS == <<"g", "s", "s", "-", "t", "s", "i", "g", ".">>

TkeyModeServer == 1
TkeyModeDH == 2
TkeyModeGSS == 3
TkeyModeResolver == 4
TkeyModeDelete == 5

TsigFudge == 300

Uint16 == 65536     \* 2^16: the width of KeySize, and of one limb of a wider integer

----------------------------------------------------------------------------
(* Values *)

\* every Go string is a sequence of one-character strings
Nil == <<"<nil>">>                  \* a nil *string

NilErr == [kind |-> "nil", code |-> 0, Errors |-> <<>>]
NilMsg == [isNil |-> TRUE, Rcode |-> 0, Answer |-> <<>>]
NilRR == [Hdr |-> [Name |-> <<>>, Rrtype |-> "nil", Class |-> "", Ttl |-> 0]]   \* a nil dns.RR
NilMap == <<>>                      \* a nil Go map

NoResult == [tkey |-> NilRR, additional |-> <<>>, err |-> NilErr]
NoLookup == [err |-> NilErr, addrs |-> <<>>]
NoCalls == <<>>                     \* no concurrent calls

\* A uint32 is the pair <<high, low>> of its 16-bit limbs; the int64 of
\* time.Now().Unix() is the triple <<bits 32 and up, high, low>>.
Limbs == 0 .. (Uint16 - 1)
U32(hi, lo) == <<hi, lo>>
U32Zero == U32(0, 0)

\* uint32(t) of an int64: the low 32 bits
ToUint32(t) == U32(t[2], t[3])

\* a + b of two uint32, as Go computes it: modulo 2^32
U32Add(a, b) ==
    LET lo == a[2] + b[2]
        hi == a[1] + b[1] + (lo \div Uint16)
    IN  U32(hi % Uint16, lo % Uint16)

\* the clock one second later
NextSecond(t) ==
    LET lo == t[3] + 1
        hi == t[2] + (lo \div Uint16)
    IN  <<t[1] + (hi \div Uint16), hi % Uint16, lo % Uint16>>

SeqsUpTo(S, n) == UNION {[1..k -> S] : k \in 0..n}

Last(s) == s[Len(s)]
Front(s) == SubSeq(s, 1, Len(s) - 1)

----------------------------------------------------------------------------
(* strings.ToLower, hex.EncodeToString *)

UpperToLower ==
    [c \in {"G", "S", "T", "I", "H", "M", "A", "C"} |->
        CASE c = "G" -> "g" [] c = "S" -> "s" [] c = "T" -> "t" [] c = "I" -> "i"
          [] c = "H" -> "h" [] c = "M" -> "m" [] c = "A" -> "a" [] c = "C" -> "c"]

ToLower(s) ==
    [k \in DOMAIN s |-> IF s[k] \in DOMAIN UpperToLower THEN UpperToLower[s[k]] ELSE s[k]]

HexDigits == <<"0", "1", "2", "3", "4", "5", "6", "7", "8", "9",
               "a", "b", "c", "d", "e", "f">>

\* A byte slice is its leading bytes and the number of zero bytes that follow
\* them, so that a slice of 2^16 bytes and more is a value of the model; the
\* string of its hexadecimal digits is the leading characters and the number
\* of "0" characters that follow them.
Bytes(head, zeros) == [head |-> head, zeros |-> zeros]
ByteLen(b) == Len(b.head) + b.zeros

\* byte k of the input gives characters 2k-1 and 2k of the output
EncodeToString(b) ==
    [head |-> [k \in 1..(2 * Len(b.head)) |->
                 LET byte == b.head[(k + 1) \div 2] IN
                 IF k % 2 = 1 THEN HexDigits[(byte \div 16) + 1]
                 ELSE HexDigits[(byte % 16) + 1]],
     zeros |-> 2 * b.zeros]

----------------------------------------------------------------------------
(* Resource records and messages *)

RRHeader(name, rrtype) == [Name |-> name, Rrtype |-> rrtype, Class |-> "ANY", Ttl |-> 0]

IsTKEY(r) == r.Hdr.Rrtype = "TKEY"

\* (*dns.Msg).IsTsig: the last record of the additional section, when it is a TSIG
IsTsig(m) == Len(m.Extra) > 0 /\ Last(m.Extra).Hdr.Rrtype = "TSIG"

\* (*dns.Msg).SetTsig: append a TSIG record to the additional section
SetTsig(m, name, algo, fudge, timesigned) ==
    [m EXCEPT !.Extra = Append(@, [Hdr |-> RRHeader(name, "TSIG"), Algorithm |-> algo,
                                    Fudge |-> fudge, TimeSigned |-> timesigned])]

\* writing the message drops its last additional record, whatever it is
DropLast(m) == IF Len(m.Extra) > 0 THEN [m EXCEPT !.Extra = Front(@)] ELSE m

\* what writing the message does to it (line 113): the TSIG record is dropped
DropTsig(m) == IF IsTsig(m) THEN [m EXCEPT !.Extra = Front(@)] ELSE m

\* multierror.Append(errs, err)
MultierrorAppend(es, e) ==
    IF es = NilErr THEN [kind |-> "multierror", code |-> 0, Errors |-> <<e>>]
    ELSE [es EXCEPT !.Errors = Append(@, e)]

----------------------------------------------------------------------------
(* The decisions of ExchangeTKEY *)

\* the comparison without strings.ToLower
IsGSSCaseSensitive(algo) == algo = GSS

IsGSS(algo) == ToLower(algo) = GSS

\* a range check over the declared modes in place of the switch
ModeSupportedRange(m) == m \in TkeyModeServer .. TkeyModeDelete

\* the switch with a case for server assigned keying
ModeSupportedWithServer(m) == m \in {TkeyModeServer, TkeyModeDH, TkeyModeGSS, TkeyModeDelete}

ModeSupported(m) == m \in {TkeyModeDH, TkeyModeGSS, TkeyModeDelete}

\* the expiration without the inception added
ExpirationLifetimeOnly(m, t, life) ==
    IF m \in {TkeyModeDH, TkeyModeGSS} THEN life ELSE U32Zero

\* the expiration computed for key deletion as for the other modes
ExpirationAlways(m, t, life) ==
    IF m \in {TkeyModeDH, TkeyModeGSS, TkeyModeDelete} THEN U32Add(ToUint32(t), life)
    ELSE U32Zero

Inception(m, t) == IF m \in {TkeyModeDH, TkeyModeGSS} THEN ToUint32(t) ELSE U32Zero

Expiration(m, t, life) ==
    IF m \in {TkeyModeDH, TkeyModeGSS} THEN U32Add(ToUint32(t), life) ELSE U32Zero

BuildTKEY(name, algo, m, t, life, in) ==
    [Hdr |-> RRHeader(name, "TKEY"),
     Algorithm |-> algo,
     Mode |-> m,
     Inception |-> Inception(m, t),
     Expiration |-> Expiration(m, t, life),
     KeySize |-> ByteLen(in) % Uint16,
     Key |-> EncodeToString(in)]

\* one client for all calls, kept from call to call: a call with the GSS
\* algorithm configures it, another call finds it as it was left
NewClientShared(name, algo) ==
    IF IsGSS(algo)
    THEN [Net |-> "tcp", TsigAlgorithm |-> (GSS :> "null"), TsigSecret |-> (name :> <<>>)]
    ELSE IF \E q \in DOMAIN calls : calls[q].client.TsigAlgorithm # NilMap
         THEN calls[CHOOSE q \in DOMAIN calls : calls[q].client.TsigAlgorithm # NilMap].client
         ELSE [Net |-> "tcp", TsigAlgorithm |-> NilMap, TsigSecret |-> NilMap]

NewClient(name, algo) ==
    IF IsGSS(algo)
    THEN [Net |-> "tcp", TsigAlgorithm |-> (GSS :> "null"), TsigSecret |-> (name :> <<>>)]
    ELSE [Net |-> "tcp", TsigAlgorithm |-> NilMap, TsigSecret |-> NilMap]

\* the condition of line 104 without the test of tsigmac
UseTsigNoMacTest(algo, tn, ta, tm) == ~IsGSS(algo) /\ tn # Nil /\ ta # Nil

UseTsig(algo, tn, ta, tm) == ~IsGSS(algo) /\ tn # Nil /\ ta # Nil /\ tm # Nil

\* the loop left only when there is no error
LoopBreakErrOnly(e, r) == e = NilErr

LoopBreak(e, r) == e = NilErr \/ r # NilMsg

UnsupportedMode(m) == [kind |-> "unsupported mode", code |-> m, Errors |-> <<>>]
RcodeError(r) == [kind |-> "DNS error", code |-> r.Rcode, Errors |-> <<>>]
MultipleTkey == [kind |-> "multiple TKEY", code |-> 0, Errors |-> <<>>]
NoTkey == [kind |-> "no TKEY", code |-> 0, Errors |-> <<>>]
TkeyError(t) == [kind |-> "TKEY error", code |-> t.Error, Errors |-> <<>>]

Failure(e) == [tkey |-> NilRR, additional |-> <<>>, err |-> e]

\* the loop over rr.Answer putting each other record in front of the collected ones
RECURSIVE ScanAnswerPrepend(_, _, _, _)
ScanAnswerPrepend(answer, k, tkey, additional) ==
    IF k > Len(answer) THEN [multiple |-> FALSE, tkey |-> tkey, additional |-> additional]
    ELSE IF IsTKEY(answer[k])
         THEN IF tkey # NilRR
              THEN [multiple |-> TRUE, tkey |-> tkey, additional |-> additional]
              ELSE ScanAnswerPrepend(answer, k + 1, answer[k], additional)
         ELSE ScanAnswerPrepend(answer, k + 1, tkey, <<answer[k]>> \o additional)

\* the loop over rr.Answer (lines 131-146), with its early return
RECURSIVE ScanAnswer(_, _, _, _)
ScanAnswer(answer, k, tkey, additional) ==
    IF k > Len(answer) THEN [multiple |-> FALSE, tkey |-> tkey, additional |-> additional]
    ELSE IF IsTKEY(answer[k])
         THEN IF tkey # NilRR
              THEN [multiple |-> TRUE, tkey |-> tkey, additional |-> additional]
              ELSE ScanAnswer(answer, k + 1, answer[k], additional)
         ELSE ScanAnswer(answer, k + 1, tkey, Append(additional, answer[k]))

\* validation without the test for a second TKEY answer (line 139)
ValidateFirstTkey(r) ==
    IF r.Rcode # 0 THEN Failure(RcodeError(r))
    ELSE LET s == ScanAnswer(r.Answer, 1, NilRR, <<>>) IN
         IF s.tkey = NilRR THEN Failure(NoTkey)
         ELSE IF s.tkey.Error # 0 THEN Failure(TkeyError(s.tkey))
         ELSE [tkey |-> s.tkey, additional |-> s.additional, err |-> NilErr]

\* validation without the test of the TKEY answer's error code (line 153)
ValidateNoErrorTest(r) ==
    IF r.Rcode # 0 THEN Failure(RcodeError(r))
    ELSE LET s == ScanAnswer(r.Answer, 1, NilRR, <<>>) IN
         IF s.multiple THEN Failure(MultipleTkey)
         ELSE IF s.tkey = NilRR THEN Failure(NoTkey)
         ELSE [tkey |-> s.tkey, additional |-> s.additional, err |-> NilErr]

\* validation with the test of the status code after the answer section
ValidateRcodeLast(r) ==
    LET s == ScanAnswer(r.Answer, 1, NilRR, <<>>) IN
    IF s.multiple THEN Failure(MultipleTkey)
    ELSE IF s.tkey = NilRR THEN Failure(NoTkey)
    ELSE IF s.tkey.Error # 0 THEN Failure(TkeyError(s.tkey))
    ELSE IF r.Rcode # 0 THEN Failure(RcodeError(r))
    ELSE [tkey |-> s.tkey, additional |-> s.additional, err |-> NilErr]

\* lines 127-157: validation of a received response
Validate(r) ==
    IF r.Rcode # 0 THEN Failure(RcodeError(r))
    ELSE LET s == ScanAnswer(r.Answer, 1, NilRR, <<>>) IN
         IF s.multiple THEN Failure(MultipleTkey)
         ELSE IF s.tkey = NilRR THEN Failure(NoTkey)
         ELSE IF s.tkey.Error # 0 THEN Failure(TkeyError(s.tkey))
         ELSE [tkey |-> s.tkey, additional |-> s.additional, err |-> NilErr]

\* the recorded errors returned whenever there are any
ReturnErrsFirst(r, es) ==
    IF es # NilErr \/ r = NilMsg THEN Failure(es) ELSE Validate(r)

\* lines 123-157: what the call returns once the loop is over
Return(r, es) == IF r = NilMsg THEN Failure(es) ELSE Validate(r)

----------------------------------------------------------------------------
(* Inputs and results of the collaborators *)

KeyName == <<"k", ".">>
TsigName == <<"t", ".">>
TsigAlgo == <<"h", "m", "a", "c", ".">>
TsigMac == <<"m", "a", "c">>

GSSUpper == <<"G", "S", "S", "-", "T", "S", "I", "G", ".">>
Algorithms == {GSS,
               GSSUpper,
               TsigAlgo}
Modes == 0 .. (TkeyModeDelete + 1)
Lifetimes == {U32(0, 3600)}
Nows == {<<0, 25939, 61696>>}       \* 1700000000
Inputs == {Bytes(<<1, 2, 171>>, 0)}
ExtraRRs == {[Hdr |-> RRHeader(<<"x", ".">>, "A")]}
Hosts == {<<"1">>, <<"2">>}         \* addresses net.LookupHost can return

LookupErr == [kind |-> "lookup", code |-> 0, Errors |-> <<>>]
TransportErrs == {[kind |-> "transport", code |-> c, Errors |-> <<>>] : c \in {1, 2}}

TkeyAnswer(e) == [Hdr |-> RRHeader(KeyName, "TKEY"), Error |-> e]
OtherAnswer == [Hdr |-> RRHeader(KeyName, "A")]
Response(rcode, answer) == [isNil |-> FALSE, Rcode |-> rcode, Answer |-> answer]

\* one response for every way validation can end
Responses ==
    {Response(0, <<OtherAnswer, TkeyAnswer(0), OtherAnswer>>),
     Response(0, <<TkeyAnswer(17)>>),
     Response(0, <<TkeyAnswer(0), TkeyAnswer(0)>>),
     Response(0, <<OtherAnswer>>),
     Response(2, <<TkeyAnswer(0)>>)}

\* the responses validation is checked on: every answer section of up to
\* MaxAnswer records, under a success status and two others
Rcodes == {0, 2, 5}
AnswerRRs == {TkeyAnswer(0),
              TkeyAnswer(17),
              [Hdr |-> RRHeader(<<"o", ".">>, "TKEY"), Error |-> 0],
              OtherAnswer,
              [Hdr |-> RRHeader(KeyName, "CNAME")]}
ValidatedResponses ==
    {Response(c, a) : c \in Rcodes, a \in SeqsUpTo(AnswerRRs, MaxAnswer)}

\* what client.Exchange can return, and whether the message was written
\* before it returned (a failed dial returns before the message is written)
Outcomes ==
    [err : TransportErrs \cup {NilErr}, rr : Responses, written : {TRUE}]
    \cup [err : TransportErrs \cup {NilErr}, rr : {NilMsg}, written : BOOLEAN]

----------------------------------------------------------------------------
(* The state machine *)

Init ==
    /\ pc = "build"
    /\ keyname = KeyName
    /\ algorithm \in Algorithms
    /\ mode \in Modes
    /\ lifetime \in Lifetimes
    /\ input \in Inputs
    /\ extra \in SeqsUpTo(ExtraRRs, MaxExtra)
    /\ tsigname \in {Nil, TsigName}
    /\ tsigalgo \in {Nil, TsigAlgo}
    /\ tsigmac \in {Nil, TsigMac}
    /\ now \in Nows
    /\ client = [Net |-> "", TsigAlgorithm |-> NilMap, TsigSecret |-> NilMap]
    /\ msg = [Id |-> 0, RecursionDesired |-> FALSE, Question |-> <<>>, Extra |-> <<>>]
    /\ addrs = <<>>
    /\ i = 1
    /\ rr = NilMsg
    /\ err = NilErr
    /\ errs = NilErr
    /\ result = NoResult
    /\ resolved = NoLookup
    /\ lookups = 0
    /\ sent = <<>>
    /\ calls = NoCalls

\* lines 40-97: the client, the message and its TKEY record
Build ==
    /\ pc = "build"
    /\ client' = NewClient(keyname, algorithm)
    /\ IF ModeSupported(mode)
       THEN /\ \E id \in {1} :
                msg' = [Id |-> id,
                        RecursionDesired |-> FALSE,
                        Question |-> <<[Name |-> keyname, Qtype |-> "TKEY",
                                        Qclass |-> "ANY"]>>,
                        Extra |-> <<BuildTKEY(keyname, algorithm, mode, now, lifetime,
                                              input)>> \o extra]
            /\ pc' = "lookup"
            /\ UNCHANGED result
       ELSE /\ msg' = [msg EXCEPT !.Id = 1,
                                  !.Question = <<[Name |-> keyname, Qtype |-> "TKEY",
                                                  Qclass |-> "ANY"]>>,
                                  !.Extra = <<NilRR>>]
            /\ result' = Failure(UnsupportedMode(mode))
            /\ pc' = "done"
    /\ UNCHANGED <<params, calls, addrs, i, rr, err, errs, resolved, lookups, sent>>

\* lines 99-102: net.LookupHost
Lookup ==
    /\ pc = "lookup"
    /\ lookups' = lookups + 1
    /\ \E r \in [err : {LookupErr}, addrs : {<<>>}]
               \cup [err : {NilErr}, addrs : SeqsUpTo(Hosts, MaxAddrs)] :
        /\ resolved' = r
        /\ addrs' = r.addrs
        /\ err' = r.err
        /\ IF r.err # NilErr
           THEN result' = Failure(r.err) /\ pc' = "done"
           ELSE UNCHANGED result /\ pc' = "sign"
    /\ UNCHANGED <<params, calls, client, msg, i, rr, errs, sent>>

\* lines 104-107: the TSIG record and its secret
Sign ==
    /\ pc = "sign"
    /\ IF UseTsig(algorithm, tsigname, tsigalgo, tsigmac)
       THEN /\ client' = [client EXCEPT !.TsigSecret = (tsigname :> tsigmac)]
            /\ \E t \in {now, NextSecond(now)} :
                msg' = SetTsig(msg, tsigname, tsigalgo, TsigFudge, t)
       ELSE UNCHANGED <<client, msg>>
    /\ pc' = IF i > Len(addrs) THEN "validate" ELSE "exchange"
    /\ UNCHANGED <<params, calls, addrs, i, rr, err, errs, result, resolved, lookups, sent>>

\* lines 111-121: one iteration of the loop over addrs
Exchange ==
    /\ pc = "exchange"
    /\ i <= Len(addrs)
    /\ \E o \in Outcomes :
        /\ sent' = Append(sent, [addr |-> <<addrs[i], "53">>,
                                 signed |-> IsTsig(msg),
                                 tsig |-> IF IsTsig(msg) THEN Last(msg.Extra) ELSE NilRR,
                                 written |-> o.written,
                                 err |-> o.err,
                                 rr |-> o.rr])
        /\ msg' = IF o.written THEN DropTsig(msg) ELSE msg
        /\ rr' = o.rr
        /\ err' = o.err
        /\ IF LoopBreak(o.err, o.rr)
           THEN /\ pc' = "validate"
                /\ UNCHANGED <<errs, i>>
           ELSE /\ errs' = MultierrorAppend(errs, o.err)
                /\ i' = i + 1
                /\ pc' = IF i + 1 > Len(addrs) THEN "validate" ELSE "exchange"
    /\ UNCHANGED <<params, calls, client, addrs, result, resolved, lookups>>

\* lines 123-157: the nil check and the validation of the response
Finish ==
    /\ pc = "validate"
    /\ result' = Return(rr, errs)
    /\ pc' = "done"
    /\ UNCHANGED <<params, calls, client, msg, addrs, i, rr, err, errs, resolved, lookups, sent>>

Next == Build \/ Lookup \/ Sign \/ Exchange \/ Finish

Spec == Init /\ [][Next]_vars

\* The request builder alone, for every mode: lifetimes and clock readings up
\* to the ends of their ranges, every key material of up to MaxInput bytes and
\* two of 2^16 bytes and more, the lengths that KeySize cannot hold.
BuildLifetimes == {U32Zero, U32(0, 3600), U32(40000, 0), U32(Uint16 - 1, Uint16 - 1)}
BuildNows == {<<0, 25939, 61696>>, <<0, Uint16 - 1, Uint16 - 1>>, <<1, 0, 5>>}
BuildInputs ==
    {Bytes(h, 0) : h \in SeqsUpTo({1, 2, 171}, MaxInput)}
    \cup {Bytes(<<>>, Uint16), Bytes(<<171>>, Uint16)}

InitBuild ==
    /\ pc = "build"
    /\ keyname = KeyName
    /\ algorithm = TsigAlgo
    /\ mode \in Modes
    /\ lifetime \in BuildLifetimes
    /\ input \in BuildInputs
    /\ extra = <<>>
    /\ tsigname = Nil
    /\ tsigalgo = Nil
    /\ tsigmac = Nil
    /\ now \in BuildNows
    /\ client = [Net |-> "", TsigAlgorithm |-> NilMap, TsigSecret |-> NilMap]
    /\ msg = [Id |-> 0, RecursionDesired |-> FALSE, Question |-> <<>>, Extra |-> <<>>]
    /\ addrs = <<>>
    /\ i = 1
    /\ rr = NilMsg
    /\ err = NilErr
    /\ errs = NilErr
    /\ result = NoResult
    /\ resolved = NoLookup
    /\ lookups = 0
    /\ sent = <<>>
    /\ calls = NoCalls

NextBuild == Build

SpecBuild == InitBuild /\ [][NextBuild]_vars

\* The whole call on extra records: every list of up to MaxExtras records out
\* of two, with all TSIG parameters or none.
OrderedExtraRRs == ExtraRRs \cup {[Hdr |-> RRHeader(<<"y", ".">>, "TXT")]}

InitExtra ==
    /\ pc = "build"
    /\ keyname = KeyName
    /\ algorithm \in {GSSUpper, TsigAlgo}
    /\ mode \in {TkeyModeServer, TkeyModeGSS}
    /\ lifetime \in Lifetimes
    /\ input \in Inputs
    /\ extra \in SeqsUpTo(OrderedExtraRRs, MaxExtras)
    /\ \E present \in BOOLEAN :
        /\ tsigname = IF present THEN TsigName ELSE Nil
        /\ tsigalgo = IF present THEN TsigAlgo ELSE Nil
        /\ tsigmac = IF present THEN TsigMac ELSE Nil
    /\ now \in Nows
    /\ client = [Net |-> "", TsigAlgorithm |-> NilMap, TsigSecret |-> NilMap]
    /\ msg = [Id |-> 0, RecursionDesired |-> FALSE, Question |-> <<>>, Extra |-> <<>>]
    /\ addrs = <<>>
    /\ i = 1
    /\ rr = NilMsg
    /\ err = NilErr
    /\ errs = NilErr
    /\ result = NoResult
    /\ resolved = NoLookup
    /\ lookups = 0
    /\ sent = <<>>
    /\ calls = NoCalls

SpecExtra == InitExtra /\ [][Next]_vars

\* Concurrent calls.  Every variable of ExchangeTKEY is a local of the call (the
\* client of line 40, the message of line 50, rr, err, errs), so each call of
\* calls has a record of its own and a step of a call reads and writes that
\* record alone.  CallBuild .. CallFinish are Build .. Finish on a record.
Procs == {1, 2}

NewCall(algo, m, present) ==
    [pc |-> "build", keyname |-> KeyName, algorithm |-> algo, mode |-> m,
     lifetime |-> U32(0, 3600), input |-> Bytes(<<1, 2, 171>>, 0), extra |-> <<>>,
     tsigname |-> IF present THEN TsigName ELSE Nil,
     tsigalgo |-> IF present THEN TsigAlgo ELSE Nil,
     tsigmac |-> IF present THEN TsigMac ELSE Nil,
     now |-> <<0, 25939, 61696>>,
     client |-> [Net |-> "", TsigAlgorithm |-> NilMap, TsigSecret |-> NilMap],
     msg |-> [Id |-> 0, RecursionDesired |-> FALSE, Question |-> <<>>, Extra |-> <<>>],
     addrs |-> <<>>, i |-> 1, rr |-> NilMsg, err |-> NilErr, errs |-> NilErr,
     result |-> NoResult, resolved |-> NoLookup, lookups |-> 0, sent |-> <<>>]

\* lines 40-97
CallBuild(c) ==
    LET question == <<[Name |-> c.keyname, Qtype |-> "TKEY", Qclass |-> "ANY"]>> IN
    IF ModeSupported(c.mode)
    THEN [c EXCEPT !.client = NewClient(c.keyname, c.algorithm),
                   !.msg = [Id |-> 1, RecursionDesired |-> FALSE, Question |-> question,
                            Extra |-> <<BuildTKEY(c.keyname, c.algorithm, c.mode, c.now,
                                                  c.lifetime, c.input)>> \o c.extra],
                   !.pc = "lookup"]
    ELSE [c EXCEPT !.client = NewClient(c.keyname, c.algorithm),
                   !.msg = [@ EXCEPT !.Id = 1, !.Question = question, !.Extra = <<NilRR>>],
                   !.result = Failure(UnsupportedMode(c.mode)),
                   !.pc = "done"]

\* lines 99-102, r the result of net.LookupHost
CallLookup(c, r) ==
    [c EXCEPT !.lookups = @ + 1,
              !.resolved = r,
              !.addrs = r.addrs,
              !.err = r.err,
              !.result = IF r.err # NilErr THEN Failure(r.err) ELSE @,
              !.pc = IF r.err # NilErr THEN "done" ELSE "sign"]

\* lines 104-107, t the time read at line 106
CallSign(c, t) ==
    LET next == IF c.i > Len(c.addrs) THEN "validate" ELSE "exchange" IN
    IF UseTsig(c.algorithm, c.tsigname, c.tsigalgo, c.tsigmac)
    THEN [c EXCEPT !.client.TsigSecret = (c.tsigname :> c.tsigmac),
                   !.msg = SetTsig(@, c.tsigname, c.tsigalgo, TsigFudge, t),
                   !.pc = next]
    ELSE [c EXCEPT !.pc = next]

\* lines 111-121, o what client.Exchange returned
CallExchange(c, o) ==
    LET d == [c EXCEPT !.sent = Append(@, [addr |-> <<c.addrs[c.i], "53">>,
                                            signed |-> IsTsig(c.msg),
                                            tsig |-> IF IsTsig(c.msg) THEN Last(c.msg.Extra)
                                                     ELSE NilRR,
                                            written |-> o.written,
                                            err |-> o.err,
                                            rr |-> o.rr]),
                       !.msg = IF o.written THEN DropTsig(@) ELSE @,
                       !.rr = o.rr,
                       !.err = o.err]
    IN  IF LoopBreak(o.err, o.rr)
        THEN [d EXCEPT !.pc = "validate"]
        ELSE [d EXCEPT !.errs = MultierrorAppend(@, o.err),
                       !.i = @ + 1,
                       !.pc = IF c.i + 1 > Len(c.addrs) THEN "validate" ELSE "exchange"]

\* lines 123-157
CallFinish(c) == [c EXCEPT !.result = Return(c.rr, c.errs), !.pc = "done"]

\* what the collaborators return to the concurrent calls
ConcurrentLookups ==
    {[err |-> LookupErr, addrs |-> <<>>]}
    \cup {[err |-> NilErr, addrs |-> a] : a \in {<<>>, <<<<"1">>>>, <<<<"1">>, <<"2">>>>}}
ConcurrentOutcomes ==
    {[err |-> e, rr |-> NilMsg, written |-> w] : e \in TransportErrs, w \in BOOLEAN}
    \cup {[err |-> NilErr, rr |-> r, written |-> TRUE] :
            r \in {Response(0, <<TkeyAnswer(0), OtherAnswer>>), Response(2, <<>>)}}

\* no call is made with the plain variables
NoCall ==
    /\ pc = "none"
    /\ keyname = KeyName
    /\ algorithm = TsigAlgo
    /\ mode = TkeyModeGSS
    /\ lifetime = U32(0, 3600)
    /\ input = Bytes(<<>>, 0)
    /\ extra = <<>>
    /\ tsigname = Nil
    /\ tsigalgo = Nil
    /\ tsigmac = Nil
    /\ now = <<0, 25939, 61696>>
    /\ client = [Net |-> "", TsigAlgorithm |-> NilMap, TsigSecret |-> NilMap]
    /\ msg = [Id |-> 0, RecursionDesired |-> FALSE, Question |-> <<>>, Extra |-> <<>>]
    /\ addrs = <<>>
    /\ i = 1
    /\ rr = NilMsg
    /\ err = NilErr
    /\ errs = NilErr
    /\ result = NoResult
    /\ resolved = NoLookup
    /\ lookups = 0
    /\ sent = <<>>

InitConcurrent ==
    /\ NoCall
    /\ calls \in [Procs -> {NewCall(a, m, present) :
                             a \in {GSSUpper, TsigAlgo},
                             m \in {TkeyModeServer, TkeyModeGSS},
                             present \in BOOLEAN}]

OnlyCalls == UNCHANGED <<pc, params, client, msg, addrs, i, rr, err, errs, result,
                         resolved, lookups, sent>>

ConcurrentBuild(p) ==
    /\ calls[p].pc = "build"
    /\ calls' = [calls EXCEPT ![p] = CallBuild(@)]
    /\ OnlyCalls

ConcurrentLookup(p) ==
    /\ calls[p].pc = "lookup"
    /\ \E r \in ConcurrentLookups : calls' = [calls EXCEPT ![p] = CallLookup(@, r)]
    /\ OnlyCalls

ConcurrentSign(p) ==
    /\ calls[p].pc = "sign"
    /\ \E t \in {calls[p].now, NextSecond(calls[p].now)} :
        calls' = [calls EXCEPT ![p] = CallSign(@, t)]
    /\ OnlyCalls

ConcurrentExchange(p) ==
    /\ calls[p].pc = "exchange"
    /\ calls[p].i <= Len(calls[p].addrs)
    /\ \E o \in ConcurrentOutcomes : calls' = [calls EXCEPT ![p] = CallExchange(@, o)]
    /\ OnlyCalls

ConcurrentFinish(p) ==
    /\ calls[p].pc = "validate"
    /\ calls' = [calls EXCEPT ![p] = CallFinish(@)]
    /\ OnlyCalls

NextConcurrent ==
    \E p \in Procs :
        \/ ConcurrentBuild(p)
        \/ ConcurrentLookup(p)
        \/ ConcurrentSign(p)
        \/ ConcurrentExchange(p)
        \/ ConcurrentFinish(p)

SpecConcurrent == InitConcurrent /\ [][NextConcurrent]_vars

\* Validation alone: a call whose only attempt returned a response, any of
\* ValidatedResponses, and which is about to validate it.
InitValidate ==
    /\ pc = "validate"
    /\ keyname = KeyName
    /\ algorithm = TsigAlgo
    /\ mode = TkeyModeDH
    /\ lifetime \in Lifetimes
    /\ input \in Inputs
    /\ extra = <<>>
    /\ tsigname = Nil
    /\ tsigalgo = Nil
    /\ tsigmac = Nil
    /\ now \in Nows
    /\ client = NewClient(keyname, algorithm)
    /\ msg = [Id |-> 1,
              RecursionDesired |-> FALSE,
              Question |-> <<[Name |-> keyname, Qtype |-> "TKEY", Qclass |-> "ANY"]>>,
              Extra |-> <<BuildTKEY(keyname, algorithm, mode, now, lifetime, input)>>]
    /\ \E h \in Hosts :
        /\ addrs = <<h>>
        /\ resolved = [err |-> NilErr, addrs |-> <<h>>]
        /\ rr \in ValidatedResponses
        /\ sent = <<[addr |-> <<h, "53">>, signed |-> FALSE, tsig |-> NilRR,
                     written |-> TRUE, err |-> NilErr, rr |-> rr]>>
    /\ i = 1
    /\ err = NilErr
    /\ errs = NilErr
    /\ result = NoResult
    /\ lookups = 1
    /\ calls = NoCalls

NextValidate == Finish

SpecValidate == InitValidate /\ [][NextValidate]_vars

TypeOK ==
    /\ pc \in {"build", "lookup", "sign", "exchange", "validate", "done"}
    /\ i \in 1 .. (MaxAddrs + 2)
    /\ Len(sent) <= Len(addrs)

----------------------------------------------------------------------------
(* Properties *)

Succeeded == result.tkey # NilRR /\ result.err = NilErr
Failed == result.tkey = NilRR /\ result.err # NilErr

\* an attempt after which the loop is left: no error, or a response
Stops(a) == a.err = NilErr \/ a.rr # NilMsg

AllTsigPresent == tsigname # Nil /\ tsigalgo # Nil /\ tsigmac # Nil

\* lines 104-107 have run
SignerDone ==
    \/ pc \in {"exchange", "validate"}
    \/ pc = "done" /\ lookups = 1 /\ resolved.err = NilErr

\* C1: every call ends with a TKEY record and no error, or with an error and
\* no TKEY record; never with both and never with neither.
C1_ExactlyOneOutcome == pc = "done" => (Succeeded \/ Failed)

\* C2: with TSIG in use, every message written to an address carries a TSIG
\* record, on the second and later attempts as on the first.
C2_EveryAttemptSigned ==
    (~(ToLower(algorithm) = GSS) /\ AllTsigPresent) =>
        \A k \in 1..Len(sent) : sent[k].written => sent[k].signed

\* C3: the attempts go to the resolved addresses in their order, one attempt
\* per entry; no attempt follows one that returned no error or a response; the
\* response handed on after the loop is the one of the last attempt.
C3_FailoverOrder ==
    /\ Len(sent) <= Len(addrs)
    /\ \A k \in 1..Len(sent) : sent[k].addr = <<addrs[k], "53">>
    /\ \A k \in 1..(Len(sent) - 1) : ~Stops(sent[k])
    /\ (pc \in {"validate", "done"} /\ sent # <<>>) => rr = Last(sent).rr
    /\ (pc = "exchange") => (\A k \in 1..Len(sent) : ~Stops(sent[k]))

C3_Witness ==
    /\ pc = "done"
    /\ Len(addrs) = 2
    /\ Len(sent) = 1
    /\ sent[1].err # NilErr
    /\ sent[1].rr # NilMsg

\* C4: when resolution returns an error or no address, the call ends with the
\* resolution error and without any transport attempt.
C4_ResolutionFailure ==
    (pc = "done" /\ lookups = 1 /\ (resolved.err # NilErr \/ resolved.addrs = <<>>)) =>
        (Failed /\ result.err.kind = "lookup" /\ sent = <<>>)

\* C5: a call whose mode is none of DiffieHellman, GSS, Delete ends with the
\* unsupported-mode error, host resolution is never invoked and nothing is sent.
C5_UnsupportedModeBeforeNetwork ==
    (pc # "build" /\ mode \notin {2, 3, 5}) =>
        /\ pc = "done"
        /\ result = [tkey |-> NilRR, additional |-> <<>>,
                     err |-> [kind |-> "unsupported mode", code |-> mode, Errors |-> <<>>]]
        /\ lookups = 0
        /\ sent = <<>>

C5_Witness == pc = "done" /\ mode = 6 /\ result.err.kind = "unsupported mode"

\* C6 as stated: a call with mode ServerAssigned or ResolverAssigned is not
\* failed with the unsupported-mode error and reaches host resolution.
C6_AssignedModesAccepted ==
    (pc = "done" /\ mode \in {1, 4}) =>
        (result.err.kind # "unsupported mode" /\ lookups = 1)

\* C6 as amended: a call with mode ServerAssigned or ResolverAssigned ends with
\* the unsupported-mode error without host resolution; a call with mode
\* DiffieHellman, GSS or Delete is not failed with it and goes on to resolution.
C6_AssignedModesRejected ==
    pc # "build" =>
        /\ mode \in {1, 4} =>
            (pc = "done" /\ Failed /\ result.err.kind = "unsupported mode"
             /\ result.err.code = mode /\ lookups = 0)
        /\ mode \in {2, 3, 5} =>
            (result.err.kind # "unsupported mode" /\ (pc = "lookup" \/ lookups = 1))

C6_Witness ==
    pc = "done" /\ mode \in {1, 4} /\ lookups = 0 /\ result.err.kind = "unsupported mode"

\* C7: when every resolved address was attempted and none gave a response, the
\* call ends with the aggregate of the attempts' errors: one per attempt, in
\* the order of the attempts.
C7_AllErrorsAggregated ==
    (/\ pc = "done"
     /\ lookups = 1
     /\ resolved.err = NilErr
     /\ Len(sent) = Len(addrs)
     /\ \A k \in 1..Len(sent) : sent[k].rr = NilMsg) =>
        /\ Failed
        /\ result.err.kind = "multierror"
        /\ result.err.Errors = [k \in 1..Len(sent) |-> sent[k].err]

\* The aggregation itself: when there was at least one attempt and every
\* attempt returned an error and no response, the call returns those errors,
\* one per attempt, in the order of the attempts.
AggregationInOrder ==
    (/\ pc = "done"
     /\ sent # <<>>
     /\ Len(sent) = Len(addrs)
     /\ \A k \in 1..Len(sent) : sent[k].err # NilErr /\ sent[k].rr = NilMsg) =>
        /\ Failed
        /\ result.err.kind = "multierror"
        /\ result.err.Errors = [k \in 1..Len(sent) |-> sent[k].err]

\* C8: when attempts failed and a later one gave a response, the call returns
\* what validation makes of that response; the recorded errors are not returned.
C8_LaterResponseDecides ==
    (/\ pc = "done"
     /\ Len(sent) >= 2
     /\ \A k \in 1..(Len(sent) - 1) : sent[k].err # NilErr /\ sent[k].rr = NilMsg
     /\ Last(sent).rr # NilMsg) =>
        /\ result = Validate(Last(sent).rr)
        /\ result.err.kind # "multierror"
        /\ \A k \in 1..(Len(sent) - 1) : result.err # sent[k].err

C8_Witness ==
    /\ pc = "done"
    /\ Len(sent) = 2
    /\ errs # NilErr
    /\ sent[1].rr = NilMsg
    /\ sent[2].rr # NilMsg
    /\ Succeeded

\* C9: when the algorithm is "gss-tsig." in any case, the client has the null
\* TSIG algorithm and an empty secret for keyname, whatever TSIG parameters
\* were given: no TSIG record is attached or sent and tsigmac is no secret.
C9_GSSBypass ==
    (pc # "build" /\ ToLower(algorithm) = GSS) =>
        /\ client.TsigAlgorithm = (GSS :> "null")
        /\ client.TsigSecret = (keyname :> <<>>)
        /\ ~IsTsig(msg)
        /\ \A k \in 1..Len(sent) : ~sent[k].signed
        /\ \A n \in DOMAIN client.TsigSecret : client.TsigSecret[n] # TsigMac

C9_Witness ==
    /\ pc = "done"
    /\ algorithm = GSSUpper
    /\ AllTsigPresent
    /\ Len(sent) >= 1
    /\ sent[1].written

\* C10: for an algorithm other than GSS, once the signer has run: with all of
\* tsigname, tsigalgo, tsigmac present the message carries a TSIG record with
\* fudge 300, key name tsigname and algorithm tsigalgo (it is on the message
\* until the first attempt, and the first attempt sends it) and tsigmac is the
\* secret of tsigname; with any of them absent no TSIG record is attached or
\* sent and no secret is configured.
C10_TsigIffAllPresent ==
    (SignerDone /\ ~(ToLower(algorithm) = GSS)) =>
        IF AllTsigPresent
        THEN /\ client.TsigSecret = (tsigname :> tsigmac)
             /\ sent = <<>> => IsTsig(msg)
             /\ sent # <<>> => sent[1].signed
             /\ \A t \in {Last(msg.Extra)} \cup {sent[k].tsig : k \in 1..Len(sent)} :
                    (t # NilRR /\ t.Hdr.Rrtype = "TSIG") =>
                        /\ t.Fudge = 300
                        /\ t.Hdr.Name = tsigname
                        /\ t.Algorithm = tsigalgo
                        /\ t.TimeSigned \in {now, NextSecond(now)}
        ELSE /\ client.TsigSecret = NilMap
             /\ ~IsTsig(msg)
             /\ \A k \in 1..Len(sent) : ~sent[k].signed

C10_Witness ==
    /\ pc = "done"
    /\ ~(ToLower(algorithm) = GSS)
    /\ AllTsigPresent
    /\ sent # <<>>
    /\ sent[1].signed
    /\ sent[1].written

\* the positions of the TKEY records of an answer section, and its other records
TkeyPositions(answer) == {k \in 1..Len(answer) : answer[k].Hdr.Rrtype = "TKEY"}
IsOther(r) == r.Hdr.Rrtype # "TKEY"
OtherRecords(answer) == SelectSeq(answer, IsOther)

Validated == pc = "done" /\ rr # NilMsg

\* C11: for a response with status success, more than one TKEY answer ends the
\* call with the multiple-TKEY error and no TKEY answer ends it with the
\* no-TKEY error; a call that succeeds had exactly one TKEY answer.
C11_ExactlyOneTkey ==
    (Validated /\ rr.Rcode = 0) =>
        LET n == Cardinality(TkeyPositions(rr.Answer)) IN
        /\ n > 1 => (Failed /\ result.err.kind = "multiple TKEY")
        /\ n = 0 => (Failed /\ result.err.kind = "no TKEY")
        /\ Succeeded => n = 1

C11_Witness ==
    /\ Validated
    /\ rr.Rcode = 0
    /\ Cardinality(TkeyPositions(rr.Answer)) = 2
    /\ Len(rr.Answer) = 3
    /\ result.err.kind = "multiple TKEY"

\* C12: a response with status success and one TKEY answer whose error code is
\* not zero ends the call with the TKEY error carrying that code and without
\* records; a returned TKEY record has error code zero.
C12_TkeyErrorCode ==
    (Validated /\ rr.Rcode = 0) =>
        /\ \A k \in TkeyPositions(rr.Answer) :
            (TkeyPositions(rr.Answer) = {k} /\ rr.Answer[k].Error # 0) =>
                /\ result.tkey = NilRR
                /\ result.additional = <<>>
                /\ result.err.kind = "TKEY error"
                /\ result.err.code = rr.Answer[k].Error
        /\ Succeeded => result.tkey.Error = 0

C12_Witness ==
    /\ Validated
    /\ rr.Rcode = 0
    /\ Len(rr.Answer) = 2
    /\ result.err.kind = "TKEY error"
    /\ result.err.code = 17

\* C13: a response whose status is not success ends the call with the server
\* error naming that status, whatever its answer section holds.
C13_StatusFirst ==
    (Validated /\ rr.Rcode # 0) =>
        /\ result.tkey = NilRR
        /\ result.additional = <<>>
        /\ result.err.kind = "DNS error"
        /\ result.err.code = rr.Rcode

C13_Witness ==
    /\ Validated
    /\ rr.Rcode = 5
    /\ Cardinality(TkeyPositions(rr.Answer)) = 2
    /\ result.err.kind = "DNS error"

\* C14: on success the returned additional records are the records of the
\* answer section other than the TKEY record, in their order, and the returned
\* TKEY is the TKEY record of the answer section: each answer record is
\* returned once.
C14_Partition ==
    (Validated /\ Succeeded) =>
        /\ result.additional = OtherRecords(rr.Answer)
        /\ \E k \in TkeyPositions(rr.Answer) : result.tkey = rr.Answer[k]
        /\ Len(result.additional) + 1 = Len(rr.Answer)

C14_Witness ==
    /\ Validated
    /\ Succeeded
    /\ Len(rr.Answer) = 3
    /\ IsOther(rr.Answer[1])
    /\ IsOther(rr.Answer[3])
    /\ rr.Answer[1] # rr.Answer[3]
    /\ result.tkey.Hdr.Name # KeyName

\* the message has been built and its first additional record is the TKEY record
Built == pc # "build" /\ pc # "done"
BuiltTKEY == msg.Extra[1]

\* a + b of two uint32 without wrapping: <<carry, high, low>>
WideSum(a, b) ==
    LET lo == a[2] + b[2]
        hi == a[1] + b[1] + (lo \div Uint16)
    IN  <<hi \div Uint16, hi % Uint16, lo % Uint16>>

\* a - b of two uint32, modulo 2^32
U32Sub(a, b) ==
    LET borrow == IF a[2] < b[2] THEN 1 ELSE 0
    IN  <<(a[1] + Uint16 - b[1] - borrow) % Uint16, (a[2] + Uint16 - b[2]) % Uint16>>

\* C15 as stated: for mode DiffieHellman or GSS the inception is the current
\* epoch seconds and the expiration is the sum of inception and lifetime, the
\* true sum and not a wrapped one.
C15_TrueSum ==
    (Built /\ mode \in {2, 3}) =>
        /\ <<0>> \o BuiltTKEY.Inception = now
        /\ <<0>> \o BuiltTKEY.Expiration = WideSum(BuiltTKEY.Inception, lifetime)

\* C15 as amended: for mode DiffieHellman or GSS the inception is the low 32
\* bits of the current epoch seconds and the expiration is inception plus
\* lifetime modulo 2^32: expiration - inception = lifetime in 32-bit
\* arithmetic, and the expiration is the true sum whenever that fits 32 bits.
C15_ModularSum ==
    (Built /\ mode \in {2, 3}) =>
        /\ BuiltTKEY.Inception = <<now[2], now[3]>>
        /\ U32Sub(BuiltTKEY.Expiration, BuiltTKEY.Inception) = lifetime
        /\ WideSum(BuiltTKEY.Inception, lifetime)[1] = 0 =>
            <<0>> \o BuiltTKEY.Expiration = WideSum(BuiltTKEY.Inception, lifetime)

C15_Witness ==
    /\ Built
    /\ mode = 2
    /\ now[1] = 0
    /\ WideSum(BuiltTKEY.Inception, lifetime)[1] = 1

\* C16: for mode Delete the inception and the expiration are zero, whatever
\* the lifetime and the current time.
C16_DeleteZero ==
    (Built /\ mode = 5) =>
        /\ BuiltTKEY.Inception = <<0, 0>>
        /\ BuiltTKEY.Expiration = <<0, 0>>

C16_Witness ==
    /\ Built
    /\ mode = 5
    /\ lifetime = <<65535, 65535>>
    /\ BuiltTKEY.Hdr.Rrtype = "TKEY"

\* what holds of a call that runs alone, stated of the record c of a call: its
\* client, its message, the messages it sent and its result follow from its own
\* parameters and from what the collaborators returned to it
AsAlone(c) ==
    LET gss == ToLower(c.algorithm) = GSS
        present == c.tsigname # Nil /\ c.tsigalgo # Nil /\ c.tsigmac # Nil
        signerDone == c.pc \in {"exchange", "validate"}
                      \/ (c.pc = "done" /\ c.lookups = 1 /\ c.resolved.err = NilErr)
    IN
    /\ c.pc # "build" =>
        /\ c.client.TsigAlgorithm = IF gss THEN (GSS :> "null") ELSE NilMap
        /\ c.client.TsigSecret =
              IF gss THEN (c.keyname :> <<>>)
              ELSE IF signerDone /\ present THEN (c.tsigname :> c.tsigmac)
              ELSE NilMap
    /\ (c.pc # "build" /\ c.mode \in {2, 3, 5}) =>
        /\ c.msg.Extra[1].Algorithm = c.algorithm
        /\ c.msg.Extra[1].Hdr.Name = c.keyname
    /\ \A k \in 1..Len(c.sent) :
        /\ c.sent[k].addr = <<c.addrs[k], "53">>
        /\ c.sent[k].signed => (~gss /\ present /\ c.sent[k].tsig.Hdr.Name = c.tsigname)
    /\ c.sent # <<>> => (c.sent[1].signed <=> (~gss /\ present))
    /\ (c.pc \in {"validate", "done"} /\ c.sent # <<>>) => c.rr = Last(c.sent).rr
    /\ (c.pc = "done" /\ signerDone) =>
        c.result = IF c.rr = NilMsg
                   THEN [tkey |-> NilRR, additional |-> <<>>, err |-> c.errs]
                   ELSE Validate(c.rr)

\* C17: calls that run concurrently share no state: a step of one call leaves
\* the other calls as they were, and under every interleaving each call's
\* client, messages and result are those of the call running alone.
C17_NoSharedState ==
    [][/\ \E p \in DOMAIN calls : \A q \in DOMAIN calls \ {p} : calls'[q] = calls[q]
       /\ \A p \in DOMAIN calls : AsAlone(calls'[p])]_vars

C17_Witness ==
    /\ DOMAIN calls = Procs
    /\ ToLower(calls[1].algorithm) = GSS
    /\ calls[1].pc = "sign"
    /\ calls[2].algorithm = TsigAlgo
    /\ calls[2].tsigmac # Nil
    /\ calls[2].pc = "exchange"
    /\ Len(calls[2].sent) = 1
    /\ calls[2].sent[1].signed

\* the additional section is the TKEY record, with the algorithm and the mode
\* of the request and TTL 0, then the extra records in their order, then
\* nothing but at most a TSIG record
ExtraRecordsFollow ==
    (pc # "build" /\ mode \in {2, 3, 5}) =>
        /\ Len(msg.Extra) >= Len(extra) + 1
        /\ msg.Extra[1].Hdr.Rrtype = "TKEY"
        /\ msg.Extra[1].Hdr.Ttl = 0
        /\ msg.Extra[1].Algorithm = algorithm
        /\ msg.Extra[1].Mode = mode
        /\ SubSeq(msg.Extra, 2, Len(extra) + 1) = extra
        /\ \/ Len(msg.Extra) = Len(extra) + 1
           \/ Len(msg.Extra) = Len(extra) + 2 /\ Last(msg.Extra).Hdr.Rrtype = "TSIG"

\* C18: from the build of the message on, through the attachment of a TSIG
\* record and its drop by a send, the additional section is the TKEY record
\* followed by the extra records in their order, unmodified; no step of the
\* call changes the caller's extra records.
C18_ExtraRecords == [][ExtraRecordsFollow' /\ extra' = extra]_vars

C18_Witness ==
    /\ pc = "done"
    /\ Len(extra) = 2
    /\ extra[1] # extra[2]
    /\ Len(sent) = 2
    /\ sent[1].signed
    /\ sent[1].written
    /\ sent[2].written
    /\ msg.Extra = <<msg.Extra[1]>> \o extra

\* C19: the key size of the built TKEY record is the number of bytes of the key
\* material, also when that number does not fit 16 bits, and its key is the
\* key material in hexadecimal, two digits a byte.
C19_KeySizeIsLength ==
    Built =>
        /\ BuiltTKEY.KeySize = Len(input.head) + input.zeros
        /\ Len(BuiltTKEY.Key.head) = 2 * Len(input.head)
        /\ BuiltTKEY.Key.zeros = 2 * input.zeros
        /\ \A k \in 1..Len(input.head) :
            /\ BuiltTKEY.Key.head[2 * k - 1] = HexDigits[(input.head[k] \div 16) + 1]
            /\ BuiltTKEY.Key.head[2 * k] = HexDigits[(input.head[k] % 16) + 1]

\* What holds of the key: it is the key material in hexadecimal, and the key
\* size is the number of bytes modulo 2^16; 01 02 ab gives "0102ab" and 3.
KeyIsHex ==
    Built =>
        /\ BuiltTKEY.KeySize = (Len(input.head) + input.zeros) % 65536
        /\ Len(BuiltTKEY.Key.head) = 2 * Len(input.head)
        /\ BuiltTKEY.Key.zeros = 2 * input.zeros
        /\ \A k \in 1..Len(input.head) :
            /\ BuiltTKEY.Key.head[2 * k - 1] = HexDigits[(input.head[k] \div 16) + 1]
            /\ BuiltTKEY.Key.head[2 * k] = HexDigits[(input.head[k] % 16) + 1]
        /\ input = [head |-> <<1, 2, 171>>, zeros |-> 0] =>
            /\ BuiltTKEY.Key = [head |-> <<"0", "1", "0", "2", "a", "b">>, zeros |-> 0]
            /\ BuiltTKEY.KeySize = 3

====
